---- MODULE Spec2Model ----
(***************************************************************************)
(* Model of the `takes` crate (src/src/lib.rs): Takes<R>, a seekable Take  *)
(* over an inner stream R: Read + Seek.                                    *)
(*                                                                         *)
(* u64 / i64 are scaled down: SignBit stands for 2^63, u64 is             *)
(* 0 .. 2*SignBit - 1 and i64 is -SignBit .. SignBit - 1, with arithmetic  *)
(* modulo 2*SignBit, so that the cast `self.current as i64` and the signed *)
(* addition at line 76 keep their wrap-around behaviour.                   *)
(***************************************************************************)
EXTENDS Integers, Sequences, FiniteSets, TLC

\* ---- bounds -------------------------------------------------------------
SignBit == 3         \* scaled 2^63: the weight of the sign bit of i64
MaxStart == 2        \* largest position of the inner stream before takes()
MaxBuf == 3          \* largest caller buffer length passed to read

\* ---- integer types ------------------------------------------------------
TwoW == 2 * SignBit
MaxU == TwoW - 1
MinI == -SignBit
MaxI == SignBit - 1
U64 == 0 .. MaxU
I64 == MinI .. MaxI

Min(a, b) == IF a < b THEN a ELSE b

\* `x as u64` for a signed x (two's complement reinterpretation)
AsU64(x) == x % TwoW
\* `x as i64` for an unsigned x (two's complement reinterpretation)
AsI64(x) == IF (x % TwoW) > MaxI THEN (x % TwoW) - TwoW ELSE x % TwoW

\* ---- results ------------------------------------------------------------
OkRes(v) == [kind |-> "ok", val |-> v]
InnerErr == [kind |-> "inner_err", val |-> 0]
EofErr == [kind |-> "eof", val |-> 0]
PanicRes == [kind |-> "panic", val |-> 0]
NoRes == [kind |-> "none", val |-> 0]
NoCall == [kind |-> "none", arg |-> 0]

VARIABLES
    pc,              \* "new": stream not yet wrapped; "ready": Takes built; "failed": takes() returned Err
    overflowChecks,  \* TRUE for a build with overflow checks (debug), FALSE for a wrapping build (release)
    pos,             \* inner: absolute position of the inner stream
    start,           \* Takes.start
    limit,           \* Takes.limit
    current,         \* Takes.current
    total,           \* sum of the counts returned by all successful reads
    op,              \* the last operation called and its argument
    res,             \* what the last operation returned
    call,            \* what the last operation forwarded to the inner stream
    innerRes         \* what the inner stream returned to the last operation (NoRes: not called)

vars == <<pc, overflowChecks, pos, start, limit, current, total, op, res, call, innerRes>>

\* ---- the inner stream R: Read + Seek -----------------------------------
\* a stream of StreamLen bytes; its position may be moved past the end
StreamLen == MaxU

\* inner.read(&mut buf[..k]): an error, or any count up to k and to what is left
InnerReadCounts(p, k) == 0 .. Min(k, IF p < StreamLen THEN StreamLen - p ELSE 0)

InnerRead(p, k, n, fail) ==
    IF fail
    THEN [pos |-> p, res |-> InnerErr, call |-> [kind |-> "read", arg |-> k]]
    ELSE [pos |-> p + n, res |-> OkRes(n), call |-> [kind |-> "read", arg |-> k]]

\* inner.seek(SeekFrom::Start(offset))
InnerSeekStart(p, offset, fail) ==
    IF fail
    THEN [pos |-> p, res |-> InnerErr, call |-> [kind |-> "seekStart", arg |-> offset]]
    ELSE [pos |-> offset, res |-> OkRes(offset), call |-> [kind |-> "seekStart", arg |-> offset]]

\* inner.seek(SeekFrom::Current(delta)): a negative or overflowing target is an error
InnerSeekCurrent(p, delta, fail) ==
    IF fail \/ p + delta < 0 \/ p + delta > MaxU
    THEN [pos |-> p, res |-> InnerErr, call |-> [kind |-> "seekCurrent", arg |-> delta]]
    ELSE [pos |-> p + delta, res |-> OkRes(p + delta), call |-> [kind |-> "seekCurrent", arg |-> delta]]

\* ---- the `?` operator ---------------------------------------------------
\* `expr?`: an Err of the inner stream is returned as it is, an Ok is unwrapped
PropagateAsEof(r) == IF r.kind = "inner_err" THEN EofErr ELSE r
Propagate(r) == r

\* ---- Ext::takes ---------------------------------------------------------
\* let start = self.seek(SeekFrom::Current(0))?;  ...  start,
TakesInitStartZero(ret) == 0
TakesInitStart(ret) == ret

\* current: 0
TakesInitCurrentAtStart(st) == st
TakesInitCurrent(st) == 0

Takes(lim) ==
    /\ pc = "new"
    /\ \E fail \in BOOLEAN :
         LET q == InnerSeekCurrent(pos, 0, fail) IN
           /\ pos' = q.pos
           /\ call' = q.call
           /\ innerRes' = q.res
           /\ op' = [kind |-> "takes", arg |-> lim]
           /\ IF q.res.kind = "ok"
              THEN /\ pc' = "ready"
                   /\ start' = TakesInitStart(q.res.val)
                   /\ limit' = lim
                   /\ current' = TakesInitCurrent(q.res.val)
                   /\ res' = OkRes(0)
              ELSE /\ pc' = "failed"
                   /\ res' = Propagate(q.res)
                   /\ UNCHANGED <<start, limit, current>>
    /\ UNCHANGED <<overflowChecks, total>>

\* ---- Takes::read --------------------------------------------------------
\* let rem = self.limit - self.current   (u64 subtraction)
ReadRemFromLimit(lim, cur) == lim % TwoW
ReadRem(lim, cur) == (lim - cur) % TwoW
ReadUnderflows(lim, cur) == cur > lim

\* if rem == 0 { return Ok(0) }
ReadExhaustedNever(rem) == FALSE
ReadExhausted(rem) == rem = 0

\* let max = cmp::min(buf.len() as u64, rem) as usize
ReadMaxUnclamped(len, rem) == len
ReadMax(len, rem) == Min(len, rem)

\* self.current += n as u64
ReadAdvanceDropped(cur, n) == cur
ReadAdvanceSet(cur, n) == n % TwoW
ReadAdvance(cur, n) == (cur + n) % TwoW

Read(len) ==
    /\ pc = "ready"
    /\ op' = [kind |-> "read", arg |-> len]
    /\ IF ReadUnderflows(limit, current) /\ overflowChecks
       THEN /\ res' = PanicRes
            /\ call' = NoCall
            /\ innerRes' = NoRes
            /\ UNCHANGED <<pos, current, total>>
       ELSE LET rem == ReadRem(limit, current) IN
            IF ReadExhausted(rem)
            THEN /\ res' = OkRes(0)
                 /\ call' = NoCall
                 /\ innerRes' = NoRes
                 /\ UNCHANGED <<pos, current, total>>
            ELSE LET max == ReadMax(len, rem) IN
                 \E fail \in BOOLEAN : \E n \in InnerReadCounts(pos, max) :
                   LET q == InnerRead(pos, max, n, fail) IN
                     /\ pos' = q.pos
                     /\ call' = q.call
                     /\ innerRes' = q.res
                     /\ res' = Propagate(q.res)
                     /\ IF q.res.kind = "ok"
                        THEN /\ current' = ReadAdvance(current, q.res.val)
                             /\ total' = total + q.res.val
                        ELSE UNCHANGED <<current, total>>
    /\ UNCHANGED <<pc, overflowChecks, start, limit>>

\* ---- Takes::seek --------------------------------------------------------
\* the outcome of an arm that returns without calling the inner stream
Local(p, r) == [pos |-> p, res |-> r, call |-> NoCall, inner |-> NoRes]
\* the outcome of an arm that ends in `self.inner.seek(..)?`
Forwarded(q) == [pos |-> q.pos, res |-> Propagate(q.res), call |-> q.call, inner |-> q.res]

\* self.current after a successful seek to the window-relative target dest:
\* seek assigns no field
SeekCurrentFieldTracked(cur, dest) == dest
SeekCurrentField(cur, dest) == cur

\* if offset < self.start || offset > self.current
StartOutOfRangeWindow(offset, st, cur, lim) == offset < st \/ offset > st + lim
StartOutOfRangeConsumed(offset, st, cur, lim) == offset < st \/ offset > st + cur
StartOutOfRange(offset, st, cur, lim) == offset < st \/ offset > cur

\* SeekFrom::Start(offset) arm
SeekStartArmSeekFirst(p, st, cur, lim, offset, fail) ==
    LET q == InnerSeekStart(p, offset, fail) IN
      IF StartOutOfRange(offset, st, cur, lim)
      THEN [pos |-> q.pos, res |-> EofErr, call |-> q.call, inner |-> q.res]
      ELSE Forwarded(q)
SeekStartArmRelative(p, st, cur, lim, offset, fail) ==
    IF StartOutOfRange(offset, st, cur, lim)
    THEN Local(p, EofErr)
    ELSE LET q == InnerSeekStart(p, offset, fail) IN
           [pos |-> q.pos, call |-> q.call, inner |-> q.res,
            res |-> IF q.res.kind = "ok" THEN OkRes(q.res.val - st) ELSE q.res]
SeekStartArm(p, st, cur, lim, offset, fail) ==
    IF StartOutOfRange(offset, st, cur, lim)
    THEN Local(p, EofErr)
    ELSE Forwarded(InnerSeekStart(p, offset, fail))

SeekStart(offset) ==
    /\ pc = "ready"
    /\ \E fail \in BOOLEAN :
         LET q == SeekStartArm(pos, start, current, limit, offset, fail) IN
           /\ pos' = q.pos
           /\ res' = q.res
           /\ call' = q.call
           /\ innerRes' = q.inner
           /\ current' = IF q.res.kind = "ok"
                         THEN SeekCurrentField(current, offset - start)
                         ELSE current
    /\ op' = [kind |-> "seekStart", arg |-> offset]
    /\ UNCHANGED <<pc, overflowChecks, start, limit, total>>

\* let dest = (self.current as i64) + delta
DestRaw(cur, delta) == AsI64(cur) + delta
DestOverflows(cur, delta) == DestRaw(cur, delta) < MinI \/ DestRaw(cur, delta) > MaxI
Dest(cur, delta) == AsI64(DestRaw(cur, delta))

\* if dest < 0 || (dest as u64) > self.limit
CurrentOutOfRange(dest, lim) == dest < 0 \/ AsU64(dest) > lim

\* SeekFrom::Current(delta) arm
SeekCurrentArm(p, cur, lim, delta, fail, checks) ==
    IF DestOverflows(cur, delta) /\ checks
    THEN Local(p, PanicRes)
    ELSE IF CurrentOutOfRange(Dest(cur, delta), lim)
         THEN Local(p, EofErr)
         ELSE Forwarded(InnerSeekCurrent(p, delta, fail))

SeekCurrent(delta) ==
    /\ pc = "ready"
    /\ \E fail \in BOOLEAN :
         LET q == SeekCurrentArm(pos, current, limit, delta, fail, overflowChecks) IN
           /\ pos' = q.pos
           /\ res' = q.res
           /\ call' = q.call
           /\ innerRes' = q.inner
           /\ current' = IF q.res.kind = "ok"
                         THEN SeekCurrentField(current, Dest(current, delta))
                         ELSE current
    /\ op' = [kind |-> "seekCurrent", arg |-> delta]
    /\ UNCHANGED <<pc, overflowChecks, start, limit, total>>

\* SeekFrom::End(_) => unimplemented!(..)
SeekEndArmNoop(p, arg) == Local(p, OkRes(p))
SeekEndArm(p, arg) == Local(p, PanicRes)

SeekEnd(arg) ==
    /\ pc = "ready"
    /\ LET q == SeekEndArm(pos, arg) IN
         /\ pos' = q.pos
         /\ res' = q.res
         /\ call' = q.call
         /\ innerRes' = q.inner
    /\ op' = [kind |-> "seekEnd", arg |-> arg]
    /\ UNCHANGED <<pc, overflowChecks, start, limit, current, total>>

\* ---- specification ------------------------------------------------------
Init ==
    /\ pc = "new"
    /\ overflowChecks \in BOOLEAN
    /\ pos \in 0 .. MaxStart
    /\ start = 0
    /\ limit = 0
    /\ current = 0
    /\ total = 0
    /\ op = [kind |-> "none", arg |-> 0]
    /\ res = NoRes
    /\ call = NoCall
    /\ innerRes = NoRes

Next ==
    \/ \E lim \in U64 : Takes(lim)
    \/ \E len \in 0 .. MaxBuf : Read(len)
    \/ \E offset \in U64 : SeekStart(offset)
    \/ \E delta \in I64 : SeekCurrent(delta)
    \/ \E arg \in I64 : SeekEnd(arg)

Spec == Init /\ [][Next]_vars

TypeOK ==
    /\ pc \in {"new", "ready", "failed"}
    /\ pos \in U64 /\ start \in U64 /\ limit \in U64 /\ current \in U64
    /\ total \in Nat

\* ---- properties ---------------------------------------------------------
SeekKinds == {"seekStart", "seekCurrent"}

\* C1: a read that returns bytes never leaves the inner stream beyond
\* start + limit, i.e. no byte at an absolute offset >= start + limit is
\* pulled from the inner stream.
C1_ReadStaysInWindow ==
    (pc = "ready" /\ op.kind = "read" /\ res.kind = "ok" /\ res.val > 0)
        => pos <= start + limit

\* C2: after every successful wrapper seek (absolute or relative, also
\* several in a row) the inner position lies in [start, start + limit].
C2_SeekStaysInWindow ==
    (pc = "ready" /\ op.kind \in SeekKinds /\ res.kind = "ok")
        => (start <= pos /\ pos <= start + limit)

\* C3: in every state of a constructed wrapper 0 <= current <= limit, so
\* limit - current in read never underflows.
C3_CurrentWithinLimit ==
    pc = "ready" => (0 <= current /\ current <= limit /\ ~ReadUnderflows(limit, current))

C3_Witness ==
    pc = "ready" /\ op.kind = "read" /\ res.kind = "ok" /\ res.val > 0
        /\ current = limit /\ limit < MaxU

\* C4: the counts returned by all reads sum to at most limit, and a read
\* called when current = limit returns Ok(0).
C4_TotalBounded ==
    /\ [](pc = "ready" => total <= limit)
    /\ [][(pc = "ready" /\ current = limit /\ op'.kind = "read") => res' = OkRes(0)]_vars

C4_Witness ==
    pc = "ready" /\ limit > 0 /\ total = limit /\ op.kind = "read" /\ res = OkRes(0)

\* C5: SeekFrom::Start(start) succeeds in every state of the wrapper unless
\* the inner seek itself fails.
C5_SeekToStartSucceeds ==
    (pc = "ready" /\ op = [kind |-> "seekStart", arg |-> start])
        => res.kind \in {"ok", "inner_err"}

\* C6: an absolute seek to an offset outside [start, start + current] fails
\* with the UnexpectedEof error.
C6_SeekStartOutsideFails ==
    (pc = "ready" /\ op.kind = "seekStart"
        /\ (op.arg < start \/ op.arg > start + current))
        => res = EofErr

C6_Witness ==
    pc = "ready" /\ start > 0 /\ current > 0
        /\ op = [kind |-> "seekStart", arg |-> start + current + 1] /\ res = EofErr

\* C7: a relative seek by delta fails with UnexpectedEof when
\* current + delta < 0 or current + delta > limit, and otherwise forwards
\* SeekFrom::Current(delta) to the inner stream and returns its result.
C7_SeekCurrentDecision ==
    (pc = "ready" /\ op.kind = "seekCurrent")
        => IF current + op.arg < 0 \/ current + op.arg > limit
           THEN res = EofErr /\ call = NoCall
           ELSE /\ call = [kind |-> "seekCurrent", arg |-> op.arg]
                /\ res.kind \in {"ok", "inner_err"}
                /\ (res.kind = "ok" => res.val = pos)

\* C8: a read of an exhausted window (limit - current = 0) returns Ok(0)
\* without calling the inner stream; the inner position and the fields of
\* the wrapper are unchanged.
C8_ExhaustedReadTouchesNothing ==
    [][(pc = "ready" /\ limit - current = 0 /\ op'.kind = "read")
         => (res' = OkRes(0) /\ call' = NoCall
             /\ UNCHANGED <<pos, start, limit, current>>)]_vars

C8_Witness ==
    pc = "ready" /\ limit = 0 /\ op.kind = "read" /\ op.arg > 0
        /\ res = OkRes(0) /\ call = NoCall

\* C9: one read call requests at most min(buf.len(), limit - current) bytes
\* from the inner stream.
C9_RequestClamped ==
    [][(pc = "ready" /\ op'.kind = "read" /\ call'.kind = "read")
         => call'.arg <= Min(op'.arg, limit - current)]_vars

C9_Witness ==
    pc = "ready" /\ op.kind = "read" /\ call.kind = "read"
        /\ call.arg < op.arg /\ res.kind = "ok" /\ res.val = call.arg

\* C10: a seek that fails with the UnexpectedEof error has called nothing on
\* the inner stream: the inner position and start, limit, current are as
\* before the call.
C10_RejectedSeekTouchesNothing ==
    [][(pc = "ready" /\ op'.kind \in SeekKinds /\ res' = EofErr)
         => (call' = NoCall /\ UNCHANGED <<pos, start, limit, current>>)]_vars

C10_Witness ==
    pc = "ready" /\ op.kind = "seekStart" /\ res = EofErr
        /\ op.arg <= start + limit /\ op.arg >= start /\ pos /= op.arg

AllSeekKinds == {"seekStart", "seekCurrent", "seekEnd"}

\* what is left of the inner stream at position p
InnerAvail(p) == IF p < StreamLen THEN StreamLen - p ELSE 0

\* C11: SeekFrom::End never succeeds: whatever its argument, the call aborts,
\* nothing is forwarded to the inner stream and current is unchanged.
C11_SeekEndAborts ==
    [][(pc = "ready" /\ op'.kind = "seekEnd")
         => (res' = PanicRes /\ call' = NoCall /\ innerRes' = NoRes
             /\ UNCHANGED <<pos, current>>)]_vars

C11_Witness ==
    pc = "ready" /\ op.kind = "seekEnd" /\ op.arg < 0 /\ res = PanicRes
        /\ current > 0 /\ current < limit

\* C12: when the inner read or seek returns an error, read or seek returns
\* that same error after that single inner call, and current is unchanged.
C12_InnerErrorPropagated ==
    [][(pc = "ready" /\ op'.kind \in {"read", "seekStart", "seekCurrent"}
          /\ innerRes'.kind = "inner_err")
         => (res' = innerRes' /\ call'.kind /= "none" /\ current' = current)]_vars

C12_Witness ==
    pc = "ready" /\ op.kind = "read" /\ call.kind = "read"
        /\ innerRes = InnerErr /\ res = InnerErr /\ current > 0 /\ current < limit

\* C13: takes(limit) calls seek(SeekFrom::Current(0)) once on the inner stream
\* and nothing else; the inner position is unchanged; on success start is the
\* returned position, limit the argument and current 0; it fails, with the
\* inner error, exactly when that seek fails.
C13_TakesQueriesPosition ==
    [][op'.kind = "takes"
         => (/\ pc = "new"
             /\ call' = [kind |-> "seekCurrent", arg |-> 0]
             /\ pos' = pos
             /\ IF innerRes'.kind = "ok"
                THEN /\ pc' = "ready" /\ res'.kind = "ok"
                     /\ innerRes'.val = pos
                     /\ start' = pos /\ limit' = op'.arg /\ current' = 0
                ELSE /\ pc' = "failed" /\ res' = innerRes'
                     /\ innerRes'.kind = "inner_err")]_vars

C13_Witness ==
    pc = "ready" /\ op.kind = "takes" /\ start > 0 /\ current = 0
        /\ limit = op.arg /\ limit > InnerAvail(start)

\* C14: when the inner stream holds at least limit - current more bytes and
\* does not short-read, a read into a buffer of at least limit - current
\* bytes returns exactly limit - current and exhausts the window; an
\* exhausted window stays exhausted, so every later read returns 0.
C14_FullReadExhausts ==
    [][(pc = "ready" /\ op'.kind = "read"
          /\ op'.arg >= limit - current
          /\ InnerAvail(pos) >= limit - current
          /\ innerRes'.kind /= "inner_err"
          /\ (call'.kind = "read" => innerRes'.val = Min(call'.arg, InnerAvail(pos))))
         => (/\ res' = OkRes(limit - current)
             /\ current' = limit
             /\ (current = limit => res' = OkRes(0)))]_vars
    /\ [][(pc = "ready" /\ current = limit) => current' = limit]_vars

C14_Witness ==
    pc = "ready" /\ op.kind = "read" /\ start > 0 /\ current = limit
        /\ res.kind = "ok" /\ res.val > 1 /\ res.val = limit /\ op.arg > res.val

\* C15: the value returned by a successful seek is the inner stream's
\* absolute position as the inner seek returned it; a successful
\* SeekFrom::Start(offset) leaves the inner stream at offset and returns offset.
C15_SeekReturnsAbsolute ==
    (pc = "ready" /\ op.kind \in SeekKinds /\ res.kind = "ok")
        => (/\ res = innerRes
            /\ res.val = pos
            /\ (op.kind = "seekStart" => (pos = op.arg /\ res.val = op.arg)))

C15_Witness ==
    pc = "ready" /\ op.kind = "seekStart" /\ res.kind = "ok"
        /\ start > 0 /\ res.val = start /\ pos = start /\ current > 0

\* C16: a read of a window that is not exhausted, whose inner read succeeds
\* with n, returns n and advances current by n; a short count (0 included)
\* is passed through.
C16_ReadPassesCount ==
    [][(pc = "ready" /\ op'.kind = "read" /\ limit - current /= 0
          /\ innerRes'.kind = "ok")
         => (/\ call'.kind = "read"
             /\ res' = OkRes(innerRes'.val)
             /\ current' = current + innerRes'.val
             /\ pos' = pos + innerRes'.val)]_vars

C16_Witness ==
    pc = "ready" /\ op.kind = "read" /\ call.kind = "read" /\ res.kind = "ok"
        /\ res.val < call.arg /\ current > res.val /\ current < limit

C18_BoundCheckExact ==
    pc = "ready"
        => \A delta \in I64 :
             /\ ~DestOverflows(current, delta)
             /\ CurrentOutOfRange(Dest(current, delta), limit)
                  <=> (current + delta < 0 \/ current + delta > limit)

C20_PositionTracksCurrent ==
    /\ []((pc = "ready" /\ op.kind = "takes") => pos = start + current)
    /\ [][(pc = "ready" /\ pos = start + current
            /\ ~(op'.kind \in SeekKinds /\ res'.kind = "ok"))
          => (pos' = start' + current' /\ pos' <= start' + limit')]_vars

C20_Witness ==
    pc = "ready" /\ op.kind = "read" /\ res.kind = "ok" /\ res.val > 0
        /\ start > 0 /\ total = current /\ current > res.val /\ pos = start + current

====
